---- MODULE Spec2Model ----
(***************************************************************************)
(* A model of the qu command line tool: commands::exec and its commands    *)
(* (src/src/commands) and the common functions of src/src/lib/mod.rs.      *)
(*                                                                         *)
(* Spec     the program run from commands::exec: the send command with     *)
(*          its transport operations, and the signing commands.            *)
(* SpecLib  the pure functions of lib/mod.rs applied to bounded inputs.    *)
(***************************************************************************)
EXTENDS Integers, Sequences, FiniteSets, TLC

VARIABLES
    pem,        \* Option<String>: the PEM text handed to commands::exec
    cmd,        \* the Command variant
    opts,       \* the options of the command (set when the command starts)
    pc,         \* position in the program
    outcome,    \* how the process ended: ok, err(msg), exit(code), panic(msg)
    identity,   \* the identity get_agent loaded
    net,        \* every transport operation performed so far, in order
    shape,      \* send::exec: the JSON shape that matched
    vals,       \* send::exec: the decoded messages or bundles
    idx,        \* send::exec: the message being handled (1-based)
    handled,    \* send::exec: per message, how its handling ended
    ingress_res,\* send: what send_ingress returned last
    query_raw,  \* send_ingress: the raw bytes transport.query returned last
    stdout,     \* what has been printed
    stdin,      \* send: the lines read from STDIN for the message being handled
    pollMax,    \* request_status::submit: the policy's iteration budget
    pollSeq,    \* request_status::submit: the statuses seen in this poll
    pollOut,    \* request_status::submit: what the poll returned
    generated,  \* neuron_manage::exec: the signed bundles returned
    lib_pc,     \* SpecLib: idle, call or returned
    lib_call,   \* SpecLib: the function applied and its arguments
    lib_ret,    \* SpecLib: what it returned
    candid      \* the interface descriptions bundled with the program (candid/*.did)

vars == <<pem, cmd, opts, pc, outcome, identity, net, shape, vals, idx, handled,
          ingress_res, query_raw, stdout, stdin, pollMax, pollSeq, pollOut, generated,
          lib_pc, lib_call, lib_ret, candid>>

(***************************************************************************)
(* Bounds of the model.                                                    *)
(***************************************************************************)
MaxBatch == 2
MaxPollIter == 3
MaxRetries == 1
MaxOps == 2

(***************************************************************************)
(* Result<T, E> and Option<T>.                                             *)
(***************************************************************************)
Ok(v) == [ok |-> TRUE, v |-> v]
Err(e) == [ok |-> FALSE, v |-> e]
\* None, with a value of the option's type in the unused place
NoneOf(d) == [some |-> FALSE, v |-> d]
Some(x) == [some |-> TRUE, v |-> x]

(***************************************************************************)
(* lib/mod.rs: parse_query_response.  A raw response is the CBOR value it  *)
(* decodes to, or NotCbor when serde_cbor::from_slice rejects it.          *)
(***************************************************************************)
\* a value has a tag t and, by the tag, an integer i, a text or byte string s,
\* or a map m from text keys to values
Cbor(t, i, s, m) == [t |-> t, i |-> i, s |-> s, m |-> m]
EmptyMap == [k \in {} |-> 0]
NotCbor == Cbor("invalid", 0, "", EmptyMap)
CborInt(i) == Cbor("int", i, "", EmptyMap)
CborText(s) == Cbor("text", 0, s, EmptyMap)
CborBytes(b) == Cbor("bytes", 0, b, EmptyMap)
CborNull == Cbor("null", 0, "", EmptyMap)
CborMap(m) == Cbor("map", 0, "", m)

\* m.get(&Value::Text(key)) on a BTreeMap<Value, Value>
MapGet(m, key) == IF key \in DOMAIN m THEN Some(m[key]) ELSE NoneOf(CborNull)

\* format!("Rejected (code {}): {}", reject_code, reject_message)
FormatRejected(reject_code, reject_message) ==
    "Rejected (code " \o ToString(reject_code) \o "): " \o reject_message

ParseQueryResponseReplyFirst(response) ==
    IF response.t = "invalid"
    THEN Err("Invalid cbor data in the content of the message.")
    ELSE IF response.t = "map"
         THEN LET m == response.m
                  reject_code == MapGet(m, "reject_code")
                  reject_message == MapGet(m, "reject_message")
                  reply == MapGet(m, "reply")
              IN  IF reply.some /\ reply.v.t = "map"
                     /\ MapGet(reply.v.m, "arg").some
                     /\ MapGet(reply.v.m, "arg").v.t = "bytes"
                  THEN Ok(MapGet(reply.v.m, "arg").v.s)
                  ELSE IF reject_code.some /\ reject_code.v.t = "int"
                          /\ reject_message.some /\ reject_message.v.t = "text"
                       THEN Ok(FormatRejected(reject_code.v.i, reject_message.v.s))
                       ELSE Err("Invalid cbor content")
         ELSE Err("Invalid cbor content")

ParseQueryResponse(response) ==
    IF response.t = "invalid"
    THEN Err("Invalid cbor data in the content of the message.")
    ELSE IF response.t = "map"
         THEN LET m == response.m
                  reject_code == MapGet(m, "reject_code")
                  reject_message == MapGet(m, "reject_message")
                  reply == MapGet(m, "reply")
              IN  IF reject_code.some /\ reject_code.v.t = "int"
                     /\ reject_message.some /\ reject_message.v.t = "text"
                  THEN Ok(FormatRejected(reject_code.v.i, reject_message.v.s))
                  ELSE IF reply.some /\ reply.v.t = "map"
                          /\ MapGet(reply.v.m, "arg").some
                          /\ MapGet(reply.v.m, "arg").v.t = "bytes"
                       THEN Ok(MapGet(reply.v.m, "arg").v.s)
                       ELSE Err("Invalid cbor content")
         ELSE Err("Invalid cbor content")

\* The raw responses parse_query_response is applied to.
CborScalars ==
    {CborInt(3), CborText("bad"), CborBytes("DIDL:ListNeuronsResponse:42"), CborNull}
ReplyMaps ==
    {CborMap(EmptyMap)} \cup
    {CborMap([k \in {"arg"} |-> x]) : x \in {CborBytes("DIDL:ListNeuronsResponse:42"), CborBytes("junk"), CborText("bad")}}
FieldChoices(key) ==
    CASE key = "status" -> {CborText("replied"), CborText("rejected")}
      [] key = "reject_code" -> {CborInt(3), CborInt(-1), CborText("3")}
      [] key = "reject_message" -> {CborText("bad"), CborInt(3)}
      [] key = "reply" -> ReplyMaps \cup {CborBytes("DIDL:ListNeuronsResponse:42")}
ResponseKeys == {"status", "reject_code", "reject_message", "reply"}
ResponseMaps ==
    {CborMap(f) : f \in UNION {
        {g \in [ks -> UNION {FieldChoices(k) : k \in ResponseKeys}] :
            \A k \in ks : g[k] \in FieldChoices(k)} : ks \in SUBSET ResponseKeys}}
RawResponses == {NotCbor} \cup CborScalars \cup ResponseMaps

(***************************************************************************)
(* lib/mod.rs: get_local_candid, get_candid_type, get_idl_string.          *)
(* An interface description is what candid makes of its text: whether it   *)
(* parses, whether it type checks, whether it declares an actor, and the   *)
(* actor's methods.  A blob is well-formed candid of some type, or not.    *)
(***************************************************************************)
GOVERNANCE_CANISTER_ID == "rrkah-fqaaa-aaaaa-aaaaq-cai"
LEDGER_CANISTER_ID == "ryjl3-tyaaa-aaaaa-aaaba-cai"
OtherCanisterId == "aaaaa-aa"
governance_canister_id == GOVERNANCE_CANISTER_ID
ledger_canister_id == LEDGER_CANISTER_ID

Func(args, rets, query) == [args |-> args, rets |-> rets, query |-> query]
Did(parses, checks, actor, methods) ==
    [parses |-> parses, checks |-> checks, actor |-> actor, methods |-> methods]
\* Default::default(): the empty text, which parses to a program with no actor
NoMethods == [m \in {} |-> Func("", "", FALSE)]
EmptyDid == Did(TRUE, TRUE, FALSE, NoMethods)
GovernanceDid ==
    Did(TRUE, TRUE, TRUE,
        [m \in {"manage_neuron", "list_neurons"} |->
            IF m = "list_neurons" THEN Func("ListNeurons", "ListNeuronsResponse", TRUE)
            ELSE Func("ManageNeuron", "ManageNeuronResponse", FALSE)])
LedgerDid ==
    Did(TRUE, TRUE, TRUE,
        [m \in {"send_dfx"} |-> Func("SendArgs", "nat64", FALSE)])
UnparsableDid == Did(FALSE, FALSE, FALSE, NoMethods)
IllTypedDid == Did(TRUE, FALSE, FALSE, NoMethods)
DidSet == {EmptyDid, GovernanceDid, LedgerDid, UnparsableDid, IllTypedDid}

GetLocalCandidAnyCanister(canister_id) ==
    IF canister_id = ledger_canister_id THEN Ok(candid.ledger)
    ELSE Ok(candid.governance)

\* candid.governance and candid.ledger are the texts include_bytes! bundles
GetLocalCandid(canister_id) ==
    IF canister_id = governance_canister_id THEN Ok(candid.governance)
    ELSE IF canister_id = ledger_canister_id THEN Ok(candid.ledger)
    ELSE Ok(EmptyDid)

NoMethod == NoneOf(Func("", "", FALSE))
GetCandidType(idl, method_name) ==
    IF ~idl.parses THEN NoMethod
    ELSE IF ~idl.checks THEN NoMethod
    ELSE IF ~idl.actor THEN NoMethod
    ELSE IF method_name \notin DOMAIN idl.methods THEN NoMethod
    ELSE Some(idl.methods[method_name])

\* what the candid decoder finds in a byte string: a value of a type, or nothing
Wire(wf, ty, v) == [wf |-> wf, ty |-> ty, v |-> v]
WireOf(blob) ==
    CASE blob = "DIDL:ListNeuronsResponse:42" -> Wire(TRUE, "ListNeuronsResponse", "42")
      [] blob = "DIDL:ManageNeuronResponse:5" -> Wire(TRUE, "ManageNeuronResponse", "5")
      [] blob = "DIDL:ManageNeuron:9" -> Wire(TRUE, "ManageNeuron", "9")
      [] blob = "DIDL:ListNeurons:1" -> Wire(TRUE, "ListNeurons", "1")
      [] blob = "DIDL:nat64:7" -> Wire(TRUE, "nat64", "7")
      [] OTHER -> Wire(FALSE, "none", "none")
\* candid::IDLArgs::from_bytes
FromBytes(blob) ==
    IF WireOf(blob).wf
    THEN Ok([typed |-> FALSE, ty |-> WireOf(blob).ty, v |-> WireOf(blob).v])
    ELSE Err("Cannot parse header")
\* candid::IDLArgs::from_bytes_with_types
FromBytesWithTypes(blob, types) ==
    IF ~WireOf(blob).wf THEN Err("Cannot parse header")
    ELSE IF WireOf(blob).ty # types
         THEN Err("Fail to decode argument 0 from " \o WireOf(blob).ty \o " to " \o types)
         ELSE Ok([typed |-> TRUE, ty |-> types, v |-> WireOf(blob).v])
\* IDLArgs::to_string
IdlArgsToString(args) ==
    IF args.typed THEN "(" \o args.v \o " : " \o args.ty \o ")"
    ELSE "(" \o args.v \o ")"

GetIdlString(blob, canister_id, method_name, part) ==
    LET local == GetLocalCandid(canister_id)
        spec == IF local.ok THEN local.v ELSE EmptyDid
        method_type == GetCandidType(spec, method_name)
        decoded == IF ~method_type.some
                   THEN FromBytes(blob)
                   ELSE FromBytesWithTypes(blob,
                            IF part = "args" THEN method_type.v.args
                            ELSE method_type.v.rets)
    IN  IF decoded.ok THEN Ok(IdlArgsToString(decoded.v)) ELSE Err(decoded.v)

\* lib/mod.rs: is_query
IsQuery(canister_id, method_name) ==
    LET local == GetLocalCandid(canister_id)
        spec == IF local.ok THEN local.v ELSE EmptyDid
        method_type == GetCandidType(spec, method_name)
    IN  IF method_type.some THEN method_type.v.query ELSE FALSE

BundledCandid == [governance |-> GovernanceDid, ledger |-> LedgerDid]
CandidSet == [governance : DidSet, ledger : DidSet]
CanisterIds == {GOVERNANCE_CANISTER_ID, LEDGER_CANISTER_ID, OtherCanisterId}
MethodNames == {"manage_neuron", "list_neurons", "send_dfx", "no_such_method"}
Blobs ==
    {"DIDL:ListNeuronsResponse:42", "DIDL:ManageNeuronResponse:5", "DIDL:ManageNeuron:9",
     "DIDL:nat64:7", "junk", "Rejected (code 3): bad"}

(***************************************************************************)
(* lib/mod.rs: get_identity.  A PEM text is empty or not, and each of the  *)
(* two loaders of ic_agent accepts it or not.                              *)
(***************************************************************************)
Pem(len, secp256k1, basic) == [len |-> len, secp256k1 |-> secp256k1, basic |-> basic]
EmptyPem == Pem(0, FALSE, FALSE)
PemSet ==
    {EmptyPem} \cup {Pem(1, s, b) : s \in BOOLEAN, b \in BOOLEAN}
\* Secp256k1Identity::from_pem, BasicIdentity::from_pem
Secp256k1FromPem(p) == IF p.len > 0 /\ p.secp256k1 THEN Ok("secp256k1") ELSE Err("pem")
BasicFromPem(p) == IF p.len > 0 /\ p.basic THEN Ok("basic") ELSE Err("pem")

Returned(v) == [kind |-> "returned", v |-> v]
Exited(code) == [kind |-> "exit", v |-> ToString(code)]

GetIdentityFallback(p) ==
    IF p.len = 0 THEN Returned("anonymous")
    ELSE IF Secp256k1FromPem(p).ok THEN Returned(Secp256k1FromPem(p).v)
    ELSE IF BasicFromPem(p).ok THEN Returned(BasicFromPem(p).v)
    ELSE Returned("anonymous")

GetIdentity(p) ==
    IF p.len = 0 THEN Returned("anonymous")
    ELSE IF Secp256k1FromPem(p).ok THEN Returned(Secp256k1FromPem(p).v)
    ELSE IF BasicFromPem(p).ok THEN Returned(BasicFromPem(p).v)
    ELSE Exited(1)

(***************************************************************************)
(* Signed messages.  request_id is the hex text of the request id; the     *)
(* content is the hex text of the signed CBOR envelope, described by what  *)
(* decoding makes of it.                                                   *)
(***************************************************************************)
HexDigits == {"0", "1", "a", "b"}
HexVal(c) == CASE c = "0" -> 0 [] c = "1" -> 1 [] c = "a" -> 10 [] c = "b" -> 11
\* hex::decode on a text given as its characters
HexDecode(s) ==
    IF Len(s) % 2 # 0 \/ \E i \in 1..Len(s) : s[i] \notin HexDigits
    THEN Err("Invalid hex")
    ELSE Ok([i \in 1..(Len(s) \div 2) |-> 16 * HexVal(s[2 * i - 1]) + HexVal(s[2 * i])])
HexChar(n) == CASE n = 0 -> "0" [] n = 1 -> "1" [] n = 10 -> "a" [] n = 11 -> "b"
\* String::from(RequestId): hex::encode
HexEncode(bytes) ==
    [i \in 1..(2 * Len(bytes)) |->
        IF i % 2 = 1 THEN HexChar(bytes[(i + 1) \div 2] \div 16)
        ELSE HexChar(bytes[i \div 2] % 16)]
\* RequestId::from_str
RequestIdFromStr(s) ==
    IF Len(s) = 0 THEN Err("Invalid request id") ELSE HexDecode(s)

Content(hex, cbor, canister_id, method_name, arg) ==
    [hex |-> hex, cbor |-> cbor, canister_id |-> canister_id,
     method_name |-> method_name, arg |-> arg]
Ingress(call_type, request_id, content) ==
    [call_type |-> call_type, request_id |-> request_id, content |-> content]
RequestStatus(canister_id, request_id, content) ==
    [canister_id |-> canister_id, request_id |-> request_id, content |-> content]
IngressWithRequestId(ingress, request_status) ==
    [ingress |-> ingress, request_status |-> request_status]

\* Ingress::parse: (sender, canister_id, method_name, args)
IngressParse(message) ==
    IF ~message.content.hex \/ ~message.content.cbor
    THEN Err("Invalid cbor data in the content of the message.")
    ELSE Ok([sender |-> "sender",
             canister_id |-> message.content.canister_id,
             method_name |-> message.content.method_name,
             args |-> GetIdlString(message.content.arg, message.content.canister_id,
                                   message.content.method_name, "args")])

UpdateContent ==
    Content(TRUE, TRUE, GOVERNANCE_CANISTER_ID, "manage_neuron", "DIDL:ManageNeuron:9")
QueryContent ==
    Content(TRUE, TRUE, GOVERNANCE_CANISTER_ID, "list_neurons", "DIDL:ListNeurons:1")
BrokenContent ==
    Content(TRUE, FALSE, OtherCanisterId, "no_such_method", "junk")
\* a well-formed envelope whose arguments are not candid of the method's type
UnprintableContent ==
    Content(TRUE, TRUE, GOVERNANCE_CANISTER_ID, "manage_neuron", "junk")
Rid1 == <<"0", "1">>
Rid2 == <<"a", "b">>
BadRid == <<"z", "z">>
Messages ==
    {Ingress("update", Some(Rid1), UpdateContent),
     Ingress("query", NoneOf(<<>>), QueryContent),
     Ingress("call", Some(Rid2), UpdateContent),
     Ingress("update", Some(Rid1), BrokenContent),
     Ingress("update", Some(BadRid), UpdateContent),
     Ingress("update", NoneOf(<<>>), UpdateContent),
     Ingress("update", Some(Rid2), UnprintableContent)}
NoRequestStatus == RequestStatus("none", <<>>, "none")
StatusOf(m) ==
    RequestStatus(m.content.canister_id,
                  IF m.request_id.some THEN m.request_id.v ELSE <<>>, "read_state")

(***************************************************************************)
(* The persisted JSON artifact: an object or an array of items, or text    *)
(* that is neither.  An item holds the fields of an Ingress, of an         *)
(* IngressWithRequestId, of both, or of neither.                           *)
(***************************************************************************)
Item(kind, ingress, request_status) ==
    [kind |-> kind, ingress |-> ingress, request_status |-> request_status]
Items ==
    {Item("ingress", m, NoRequestStatus) : m \in Messages} \cup
    {Item("bundle", m, StatusOf(m)) : m \in Messages} \cup
    {Item("both", Ingress("update", Some(Rid1), UpdateContent),
          StatusOf(Ingress("update", Some(Rid1), UpdateContent))),
     Item("other", Ingress("none", NoneOf(<<>>), BrokenContent), NoRequestStatus)}
Json(kind, items) == [kind |-> kind, items |-> items]
\* the items the arrays are made of: an update, a query and a message whose
\* content does not decode, each alone or in a bundle, and the two other items
BatchMessages ==
    {m \in Messages : m.call_type = "query" \/ (m.request_id.some /\ m.request_id.v = Rid1)}
BatchItems == {i \in Items : i.ingress \in BatchMessages \/ i.kind = "other"}
\* the arrays of at most MaxBatch items; the items with the fields of both
\* shapes come first
ItemSeqs ==
    {s \in UNION {[1..n -> BatchItems] : n \in 0..MaxBatch} :
        \A i \in 2..Len(s) : s[i].kind = "both" => s[i - 1].kind = "both"}
Artifacts ==
    {Json("object", <<i>>) : i \in Items} \cup
    {Json("array", s) : s \in ItemSeqs} \cup
    {Json("invalid", <<>>)}

HasIngressFields(item) == item.kind \in {"ingress", "both"}
HasBundleFields(item) == item.kind \in {"bundle", "both"}
\* serde_json::from_str::<Ingress>
FromStrIngress(json) ==
    IF json.kind = "object" /\ HasIngressFields(json.items[1])
    THEN Ok(json.items[1].ingress) ELSE Err("json")
\* serde_json::from_str::<Vec<Ingress>>
FromStrVecIngress(json) ==
    IF json.kind = "array" /\ \A i \in 1..Len(json.items) : HasIngressFields(json.items[i])
    THEN Ok([i \in 1..Len(json.items) |-> json.items[i].ingress]) ELSE Err("json")
\* serde_json::from_str::<Vec<IngressWithRequestId>>
FromStrVecIngressWithRequestId(json) ==
    IF json.kind = "array" /\ \A i \in 1..Len(json.items) : HasBundleFields(json.items[i])
    THEN Ok([i \in 1..Len(json.items) |->
                IngressWithRequestId(json.items[i].ingress, json.items[i].request_status)])
    ELSE Err("json")

\* send::Opts; file is what read_from_file finds at file_name
SendOpts ==
    [file : {NoneOf(Json("invalid", <<>>))} \cup {Some(a) : a \in Artifacts},
     dry_run : BOOLEAN, yes : BOOLEAN, raw : BOOLEAN]

(***************************************************************************)
(* The line read from STDIN at the confirmation prompt, as characters.     *)
(***************************************************************************)
StdinLines ==
    {<<"y", "\n">>, <<" ", "Y", "E", "S", " ", "\n">>, <<"n", "\n">>, <<"\n">>,
     <<"y", "e", "s", " ", "n", "o", "\n">>}
LowerChar(c) ==
    CASE c = "Y" -> "y" [] c = "E" -> "e" [] c = "S" -> "s" [] c = "N" -> "n"
      [] OTHER -> c
ToLowercase(s) == [i \in 1..Len(s) |-> LowerChar(s[i])]
IsWhitespace(c) == c \in {" ", "\n", "\t", "\r"}
RECURSIVE TrimStart(_)
TrimStart(s) ==
    IF Len(s) > 0 /\ IsWhitespace(Head(s)) THEN TrimStart(Tail(s)) ELSE s
RECURSIVE TrimEnd(_)
TrimEnd(s) ==
    IF Len(s) > 0 /\ IsWhitespace(s[Len(s)]) THEN TrimEnd(SubSeq(s, 1, Len(s) - 1)) ELSE s
Trim(s) == TrimEnd(TrimStart(s))
\* ["y", "yes"].contains(&input.to_lowercase().trim())
Confirmed(input) == Trim(ToLowercase(input)) \in {<<"y">>, <<"y", "e", "s">>}

(***************************************************************************)
(* The program.                                                            *)
(***************************************************************************)
Commands ==
    {"PublicIds", "Send", "Transfer", "NeuronStake", "NeuronManage",
     "ListNeurons", "Generate", "Raw"}
SigningCommands ==
    {"PublicIds", "Transfer", "NeuronStake", "NeuronManage", "ListNeurons", "Raw"}

Running == [kind |-> "running", v |-> ""]
ReturnedOk == [kind |-> "ok", v |-> ""]
ReturnedErr(msg) == [kind |-> "err", v |-> msg]
ProcessExit(code) == [kind |-> "exit", v |-> ToString(code)]
Panicked(msg) == [kind |-> "panic", v |-> msg]

NoIngressResult == [kind |-> "none", ok |-> FALSE, v |-> <<>>, msg |-> 0]
NoOpts == [file |-> NoneOf(Json("invalid", <<>>)), dry_run |-> FALSE, yes |-> FALSE, raw |-> FALSE]
NoPoll == "none"

\* one operation of the transport (ReplicaV2Transport), as it was performed;
\* ok: a call or query returned Ok (the answer of a status query is in pollSeq)
NetOp(op, msg, canister_id, request_id, ok) ==
    [op |-> op, msg |-> msg, canister_id |-> canister_id,
     request_id |-> request_id, ok |-> ok]

LibIdle ==
    /\ lib_pc = "idle"
    /\ lib_call = "none"
    /\ lib_ret = "none"

Init ==
    /\ pem \in {NoneOf(EmptyPem)} \cup {Some(p) : p \in PemSet}
    /\ cmd \in Commands
    /\ opts = NoOpts
    /\ pc = "start"
    /\ outcome = Running
    /\ identity = "none"
    /\ net = <<>>
    /\ shape = "none"
    /\ vals = <<>>
    /\ idx = 0
    /\ handled = <<>>
    /\ ingress_res = NoIngressResult
    /\ query_raw = NotCbor
    /\ stdout = <<>>
    /\ stdin = <<>>
    /\ pollMax = 0
    /\ pollSeq = <<>>
    /\ pollOut = NoPoll
    /\ generated = <<>>
    /\ candid = BundledCandid
    /\ LibIdle

sendVars == <<shape, vals, idx, handled, ingress_res, query_raw, stdin, pollMax, pollSeq, pollOut>>
libVars == <<lib_pc, lib_call, lib_ret, candid>>

\* the process ends: exec returned to main, or the process exited or panicked
Finish(how) ==
    /\ pc' = "done"
    /\ outcome' = how

(***************************************************************************)
(* commands/mod.rs: exec.                                                  *)
(***************************************************************************)
\* (None, Command::Send(opts)) => send::exec(opts)
ExecSend ==
    /\ pc = "start" /\ ~pem.some /\ cmd = "Send"
    /\ pc' = "send_exec"
    /\ UNCHANGED <<pem, cmd, opts, outcome, identity, net, stdout, generated>>
    /\ UNCHANGED sendVars /\ UNCHANGED libVars

\* (None, Command::Generate(opts)) => generate::exec(opts)
ExecGenerate ==
    /\ pc = "start" /\ ~pem.some /\ cmd = "Generate"
    /\ \E ok \in BOOLEAN :
        Finish(IF ok THEN ReturnedOk ELSE ReturnedErr("generate"))
    /\ UNCHANGED <<pem, cmd, opts, identity, net, stdout, generated>>
    /\ UNCHANGED sendVars /\ UNCHANGED libVars

\* _ => Err(anyhow!("command wrong or PEM file is missing"))
ExecNoPem ==
    /\ pc = "start" /\ ~pem.some /\ cmd \notin {"Send", "Generate"}
    /\ Finish(ReturnedErr("command wrong or PEM file is missing"))
    /\ UNCHANGED <<pem, cmd, opts, identity, net, stdout, generated>>
    /\ UNCHANGED sendVars /\ UNCHANGED libVars

\* (Some(pem), cmd) => get_agent(&pem).await?   (lib/mod.rs: get_agent)
GetAgent ==
    /\ pc = "start" /\ pem.some
    /\ \E url_ok \in BOOLEAN, fetch_ok \in BOOLEAN :
        IF ~url_ok
        THEN /\ Finish(ReturnedErr("transport"))
             /\ UNCHANGED <<identity, net>>
        ELSE LET id == GetIdentity(pem.v)
             IN  IF id.kind = "exit"
                 THEN /\ Finish(ProcessExit(1))
                      /\ UNCHANGED <<identity, net>>
                 ELSE /\ identity' = id.v
                      \* agent.fetch_root_key().await?
                      /\ net' = Append(net, NetOp("fetch_root_key", 0, "none", <<>>, fetch_ok))
                      /\ IF fetch_ok
                         THEN pc' = "command" /\ UNCHANGED outcome
                         ELSE Finish(ReturnedErr("fetch_root_key"))
    /\ UNCHANGED <<pem, cmd, opts, stdout, generated>>
    /\ UNCHANGED sendVars /\ UNCHANGED libVars

\* the commands that sign one artifact; print(&out) writes it as JSON
ExecSign ==
    /\ pc = "command" /\ cmd \in SigningCommands \ {"NeuronManage"}
    /\ \E ok \in BOOLEAN :
        IF ok
        THEN /\ stdout' = Append(stdout, <<"artifact", cmd>>)
             /\ Finish(ReturnedOk)
        ELSE /\ UNCHANGED stdout
             /\ Finish(ReturnedErr("sign"))
    /\ UNCHANGED <<pem, cmd, opts, identity, net, generated>>
    /\ UNCHANGED sendVars /\ UNCHANGED libVars

\* (Some(pem), Send | Generate): _ => Err("command wrong or PEM file is missing")
ExecWrong ==
    /\ pc = "command" /\ cmd \notin SigningCommands
    /\ Finish(ReturnedErr("command wrong or PEM file is missing"))
    /\ UNCHANGED <<pem, cmd, opts, identity, net, stdout, generated>>
    /\ UNCHANGED sendVars /\ UNCHANGED libVars

(***************************************************************************)
(* commands/send.rs: exec, send, submit_ingress_and_check_status.          *)
(***************************************************************************)
DecodeBundlesBeforeList(json) ==
    IF FromStrIngress(json).ok
    THEN [shape |-> "single", vals |-> <<FromStrIngress(json).v>>]
    ELSE IF FromStrVecIngressWithRequestId(json).ok
    THEN [shape |-> "bundles", vals |-> FromStrVecIngressWithRequestId(json).v]
    ELSE IF FromStrVecIngress(json).ok
    THEN [shape |-> "list", vals |-> FromStrVecIngress(json).v]
    ELSE [shape |-> "none", vals |-> <<>>]

\* exec, lines 30-43: the first shape that decodes
Decode(json) ==
    IF FromStrIngress(json).ok
    THEN [shape |-> "single", vals |-> <<FromStrIngress(json).v>>]
    ELSE IF FromStrVecIngress(json).ok
    THEN [shape |-> "list", vals |-> FromStrVecIngress(json).v]
    ELSE IF FromStrVecIngressWithRequestId(json).ok
    THEN [shape |-> "bundles", vals |-> FromStrVecIngressWithRequestId(json).v]
    ELSE [shape |-> "none", vals |-> <<>>]

CurrentIngress == IF shape = "bundles" THEN vals[idx].ingress ELSE vals[idx]

SendFailsThenPolls(e) ==
    IF shape = "bundles" /\ pc = "send_ingress"
    THEN pc' = "check_status" /\ UNCHANGED <<outcome, idx, handled>>
    ELSE /\ handled' = Append(handled, "err")
         /\ Finish(ReturnedErr(e))
         /\ UNCHANGED idx

\* the error of the message in hand reaches exec's `?`: exec returns it
SendFails(e) ==
    /\ handled' = Append(handled, "err")
    /\ Finish(ReturnedErr(e))
    /\ UNCHANGED idx

\* the body of exec's loop ended with Ok(()): the next message, or exec returns
ItemDone ==
    /\ handled' = Append(handled, "ok")
    /\ IF idx < Len(vals)
       THEN idx' = idx + 1 /\ pc' = "send" /\ UNCHANGED outcome
       ELSE Finish(ReturnedOk) /\ UNCHANGED idx

\* send returned Ok(()) to exec or to submit_ingress_and_check_status
SendReturnsOk ==
    IF shape = "bundles"
    THEN pc' = "check_status" /\ UNCHANGED <<outcome, idx, handled>>
    ELSE ItemDone

SendExec ==
    /\ pc = "send_exec"
    /\ \E o \in SendOpts :
        /\ opts' = o
        /\ IF ~o.file.some
           THEN /\ Finish(ReturnedErr("Message file doesn't exist"))
                /\ UNCHANGED <<shape, vals, idx, pollMax>>
           ELSE LET d == Decode(o.file.v)
                IN  /\ shape' = d.shape
                    /\ vals' = d.vals
                    \* the iteration budget the polls of this run are given
                    /\ pollMax' \in (IF d.shape = "bundles" /\ Len(d.vals) > 0 /\ ~o.dry_run
                                     THEN 1..MaxPollIter ELSE {0})
                    /\ IF d.shape = "none"
                       THEN Finish(ReturnedErr("Invalid JSON content")) /\ UNCHANGED idx
                       ELSE IF Len(d.vals) = 0
                       THEN Finish(ReturnedOk) /\ UNCHANGED idx
                       ELSE pc' = "send" /\ idx' = 1 /\ UNCHANGED outcome
    /\ UNCHANGED <<pem, cmd, identity, net, stdout, generated, handled, ingress_res,
                   query_raw, pollSeq, pollOut>>
    /\ UNCHANGED stdin
    /\ UNCHANGED libVars

DryRunIgnored(o) == FALSE

\* lines 84 and 51: if opts.dry_run { return Ok(()); }
DryRun(o) == o.dry_run

\* the five lines send prints unless --raw
Header(message, parsed) ==
    << <<"Sending message with", message.call_type>>,
       <<"Canister id", parsed.canister_id>>,
       <<"Method name", parsed.method_name>> >>

\* lines 75-82: the arguments are printed unless --raw, and
\* args.map_err(|e| anyhow!(e))? returns their rendering error
ArgsFail(message, o) == ~o.raw /\ ~IngressParse(message).v.args.ok

\* line 88: message.call_type == "update" && !opts.yes
NeedsPrompt(message, o) == message.call_type = "update" /\ ~o.yes

\* send, lines 72-96: parse, print, dry run, confirmation prompt
Send ==
    /\ pc = "send"
    /\ LET message == CurrentIngress
           parsed == IngressParse(message)
           printed == IF opts.raw THEN stdout
                      ELSE stdout \o Header(message, parsed.v)
                                  \o << <<"Arguments", parsed.v.args.v>> >>
       IN  IF ~parsed.ok
           THEN SendFails(parsed.v) /\ UNCHANGED stdout
           ELSE IF ArgsFail(message, opts)
           THEN /\ stdout' = stdout \o Header(message, parsed.v)
                /\ SendFails(parsed.v.args.v)
           ELSE IF DryRun(opts)
           THEN stdout' = printed /\ SendReturnsOk
           ELSE IF NeedsPrompt(message, opts)
           THEN /\ stdout' = Append(printed, <<"Do you want to send this message? [y/N]", "">>)
                /\ pc' = "prompt"
                /\ UNCHANGED <<outcome, idx, handled>>
           ELSE /\ stdout' = printed
                /\ pc' = "send_ingress"
                /\ UNCHANGED <<outcome, idx, handled>>
    \* the values the previous message left behind are gone
    /\ ingress_res' = NoIngressResult
    /\ query_raw' = NotCbor
    /\ stdin' = <<>>
    /\ pollSeq' = <<>>
    /\ pollOut' = NoPoll
    /\ UNCHANGED <<pem, cmd, opts, identity, net, generated, shape, vals, pollMax>>
    /\ UNCHANGED libVars

\* send, lines 88-95: the answer read from STDIN
Prompt ==
    /\ pc = "prompt"
    /\ \E input \in {NoneOf(<<>>)} \cup {Some(l) : l \in StdinLines} :
      /\ stdin' = Append(stdin, [msg |-> idx, line |-> input])
      /\ IF ~input.some
        THEN SendFails("stdin")
        ELSE IF ~Confirmed(input.v)
        THEN /\ handled' = Append(handled, "exit")
             /\ Finish(ProcessExit(0))
             /\ UNCHANGED idx
        ELSE pc' = "send_ingress" /\ UNCHANGED <<outcome, idx, handled>>
    /\ UNCHANGED <<pem, cmd, opts, identity, net, stdout, generated, shape, vals,
                   ingress_res, query_raw, pollMax, pollSeq, pollOut>>
    /\ UNCHANGED libVars

(***************************************************************************)
(* lib/mod.rs: send_ingress.  reply is what the environment does: whether  *)
(* the transport can be created, whether the operation succeeds, and the   *)
(* raw bytes a query returns.                                              *)
(***************************************************************************)
TransportReply(create_ok, ok, raw) == [create_ok |-> create_ok, ok |-> ok, raw |-> raw]
SampleResponses ==
    {NotCbor,
     CborMap([k \in {"status", "reply"} |->
        IF k = "status" THEN CborText("replied")
        ELSE CborMap([a \in {"arg"} |-> CborBytes("DIDL:ListNeuronsResponse:42")])]),
     CborMap([k \in {"status", "reject_code", "reject_message"} |->
        IF k = "status" THEN CborText("rejected")
        ELSE IF k = "reject_code" THEN CborInt(3) ELSE CborText("bad")])}
TransportReplies ==
    {TransportReply(FALSE, FALSE, NotCbor), TransportReply(TRUE, FALSE, NotCbor)} \cup
    {TransportReply(TRUE, TRUE, r) : r \in SampleResponses}

IngressResult(kind, v, ops) == [kind |-> kind, v |-> v, ops |-> ops]

IsQueryCallAnyButUpdate(message) == message.call_type # "update"

\* line 235: message.call_type == "query"
IsQueryCall(message) == message.call_type = "query"

SendIngress(message, reply) ==
    LET parsed == IngressParse(message)
        content == IF message.content.hex THEN Ok(message.content) ELSE Err("Invalid hex")
    IN  IF ~parsed.ok THEN IngressResult("err", parsed.v, <<>>)
        ELSE IF ~reply.create_ok THEN IngressResult("err", "transport", <<>>)
        ELSE IF ~content.ok THEN IngressResult("err", content.v, <<>>)
        ELSE IF IsQueryCall(message)
        THEN LET op == NetOp("query", idx, parsed.v.canister_id, <<>>, reply.ok)
                 response == ParseQueryResponse(reply.raw)
             IN  IF ~reply.ok THEN IngressResult("err", "transport", <<op>>)
                 ELSE IF ~response.ok THEN IngressResult("err", response.v, <<op>>)
                 ELSE IngressResult("QueryResponse", response.v, <<op>>)
        ELSE IF ~message.request_id.some
        THEN IngressResult("panic", "Cannot get request_id from the update message", <<>>)
        ELSE LET request_id == RequestIdFromStr(message.request_id.v)
             IN  IF ~request_id.ok THEN IngressResult("err", request_id.v, <<>>)
                 ELSE LET op == NetOp("call", idx, parsed.v.canister_id, request_id.v, reply.ok)
                      IN  IF ~reply.ok THEN IngressResult("err", "transport", <<op>>)
                          ELSE IngressResult("RequestId", request_id.v, <<op>>)

\* send, lines 97-115: send_ingress(message).await? and the printing of its result
SendIngressStep ==
    /\ pc = "send_ingress"
    /\ \E reply \in TransportReplies :
        LET message == CurrentIngress
            r == SendIngress(message, reply)
        IN  /\ net' = net \o r.ops
            /\ ingress_res' = [kind |-> r.kind, ok |-> r.kind \in {"QueryResponse", "RequestId"},
                               v |-> r.v, msg |-> idx]
            /\ query_raw' = IF Len(r.ops) > 0 /\ r.ops[1].op = "query" /\ r.ops[1].ok
                            THEN reply.raw ELSE query_raw
            /\ CASE r.kind = "panic" ->
                        /\ handled' = Append(handled, "panic")
                        /\ Finish(Panicked(r.v))
                        /\ UNCHANGED <<idx, stdout>>
                 [] r.kind = "err" -> SendFails(r.v) /\ UNCHANGED stdout
                 [] r.kind = "QueryResponse" ->
                        IF opts.raw
                        THEN stdout' = Append(stdout, <<"raw", r.v>>) /\ SendReturnsOk
                        ELSE LET text == GetIdlString(r.v, message.content.canister_id,
                                                      message.content.method_name, "rets")
                             IN  IF text.ok
                                 THEN /\ stdout' = Append(stdout, <<"Response", text.v>>)
                                      /\ SendReturnsOk
                                 ELSE SendFails(text.v) /\ UNCHANGED stdout
                 [] r.kind = "RequestId" ->
                        /\ stdout' = IF opts.raw THEN stdout
                                     ELSE Append(stdout, <<"RequestId: 0x", HexEncode(r.v)>>)
                        /\ SendReturnsOk
    /\ UNCHANGED <<pem, cmd, opts, identity, generated, shape, vals,
                   pollMax, pollSeq, pollOut>>
    /\ UNCHANGED stdin
    /\ UNCHANGED libVars

(***************************************************************************)
(* lib/request_status.rs: submit, the status poll.  On each iteration the  *)
(* status query is sent and its answer decoded; a terminal status ends the *)
(* loop, a transport failure is retried within the retry budget, and the   *)
(* loop ends with TimedOut when the iteration budget is used up.           *)
(***************************************************************************)
TerminalStatuses == {"Replied", "Rejected", "Done"}
NonTerminalStatuses == {"Unknown", "Processing"}
StatusReply(status, blob) == [status |-> status, blob |-> blob]
StatusReplies ==
    {StatusReply(st, "") : st \in NonTerminalStatuses \cup {"Rejected", "Done", "TransportError"}}
    \cup {StatusReply("Replied", b) : b \in {"DIDL:ManageNeuronResponse:5", "junk"}}

Failures(seq) == Cardinality({i \in 1..Len(seq) : seq[i] = "TransportError"})

PollDecideStopsOnProcessing(seq, max) ==
    LET last == seq[Len(seq)]
    IN  IF last \in TerminalStatuses THEN last
        ELSE IF last = "Processing" THEN "Done"
        ELSE IF last = "TransportError" /\ Failures(seq) > MaxRetries THEN "TransportError"
        ELSE IF Len(seq) >= max THEN "TimedOut"
        ELSE "continue"

PollDecideOneMore(seq, max) ==
    LET last == seq[Len(seq)]
    IN  IF last \in TerminalStatuses THEN last
        ELSE IF last = "TransportError" /\ Failures(seq) > MaxRetries THEN "TransportError"
        ELSE IF Len(seq) > max THEN "TimedOut"
        ELSE "continue"

\* what the loop does after the statuses seq, the last of them just received
PollDecide(seq, max) ==
    LET last == seq[Len(seq)]
    IN  IF last \in TerminalStatuses THEN last
        ELSE IF last = "TransportError" /\ Failures(seq) > MaxRetries THEN "TransportError"
        ELSE IF Len(seq) >= max THEN "TimedOut"
        ELSE "continue"

\* submit_ingress_and_check_status, lines 51-55
CheckStatus ==
    /\ pc = "check_status"
    /\ IF DryRun(opts)
       THEN ItemDone /\ UNCHANGED <<pollSeq, pollOut>>
       ELSE IF ~IngressParse(vals[idx].ingress).ok
       THEN /\ SendFails(IngressParse(vals[idx].ingress).v)
            /\ UNCHANGED <<pollSeq, pollOut>>
       ELSE /\ pollSeq' = <<>>
            /\ pollOut' = NoPoll
            /\ pc' = "poll"
            /\ UNCHANGED <<outcome, idx, handled>>
    /\ UNCHANGED <<pem, cmd, opts, identity, net, stdout, generated, shape, vals,
                   ingress_res, query_raw, pollMax>>
    /\ UNCHANGED stdin
    /\ UNCHANGED libVars

\* one iteration of the poll; when it returns, lines 56-69 print its result
\* (stdout records that the status was printed, not its text)
PollStep ==
    /\ pc = "poll"
    /\ \E reply \in StatusReplies :
        LET message == vals[idx]
            seq == Append(pollSeq, reply.status)
            out == PollDecide(seq, pollMax)
        IN  /\ net' = Append(net, NetOp("query_for_status", idx,
                                        message.request_status.canister_id,
                                        message.request_status.request_id, TRUE))
            /\ pollSeq' = seq
            /\ IF out = "continue"
               THEN UNCHANGED <<pc, outcome, idx, handled, pollOut, stdout>>
               ELSE /\ pollOut' = out
                    /\ IF out # "Replied"
                       THEN stdout' = Append(stdout, <<"status", "">>) /\ ItemDone
                       ELSE IF opts.raw
                       THEN stdout' = Append(stdout, <<"status", "">>) /\ ItemDone
                       ELSE LET text == GetIdlString(reply.blob,
                                            message.ingress.content.canister_id,
                                            message.ingress.content.method_name, "rets")
                            IN  IF text.ok
                                THEN stdout' = Append(stdout, <<"status", "">>) /\ ItemDone
                                ELSE SendFails(text.v) /\ UNCHANGED stdout
    /\ UNCHANGED <<pem, cmd, opts, identity, generated, shape, vals, ingress_res,
                   query_raw, pollMax>>
    /\ UNCHANGED stdin
    /\ UNCHANGED libVars

(***************************************************************************)
(* commands/neuron_manage.rs: exec.                                        *)
(***************************************************************************)
OpOrder ==
    <<"add_hot_key", "remove_hot_key", "stop_dissolving", "start_dissolving",
      "additional_dissolve_delay_seconds", "disburse", "spawn", "split",
      "merge_from_neuron", "merge_maturity">>
OpNames == {OpOrder[i] : i \in 1..Len(OpOrder)}
Percentages == {0, 1, 100, 101}

\* neuron_manage::Opts: the options given (ops) and the values of those that
\* take one; a text that does not parse as a number is "x", and a split
\* amount is "1" or one whose product with 100_000_000 exceeds u64
ManageOpts ==
    {o \in [neuron_id : {"1_234", "x"},
            ops : {S \in SUBSET OpNames : Cardinality(S) <= MaxOps},
            additional_dissolve_delay_seconds : {"10", "x"},
            split : {"1", "overflowing"},
            merge_from_neuron : {"5_678", "x"},
            merge_maturity : Percentages] :
        /\ "additional_dissolve_delay_seconds" \notin o.ops
              => o.additional_dissolve_delay_seconds = "10"
        /\ "split" \notin o.ops => o.split = "1"
        /\ "merge_from_neuron" \notin o.ops => o.merge_from_neuron = "5_678"
        /\ "merge_maturity" \notin o.ops => o.merge_maturity = 1}

\* str::parse::<u64> after id.replace('_', ""), and str::parse::<u32>
ParsesAsNumber(text) == text # "x"

IsRequested(o, op) == op \in o.ops
Requested(o) == SelectSeq(OpOrder, LAMBDA op : IsRequested(o, op))

ManageResult(kind, v, msgs) == [kind |-> kind, v |-> v, msgs |-> msgs]

\* lines 73-195 for the k-th requested operation and those after it: the
\* first failure, or the encoded messages; amount * 100_000_000 on u64
\* panics when the build checks overflow and wraps otherwise
RECURSIVE EncodeFrom(_, _, _, _, _)
EncodeFrom(o, k, enc_fail, overflow_checks, msgs) ==
    IF k > Len(Requested(o)) THEN ManageResult("ok", "", msgs)
    ELSE LET op == Requested(o)[k]
         IN  IF op = "additional_dissolve_delay_seconds"
                /\ ~ParsesAsNumber(o.additional_dissolve_delay_seconds)
             THEN ManageResult("panic", "Couldn't parse the dissolve delay", <<>>)
             ELSE IF op = "split" /\ o.split = "overflowing" /\ overflow_checks
             THEN ManageResult("panic", "attempt to multiply with overflow", <<>>)
             ELSE IF op = "merge_from_neuron" /\ ~ParsesAsNumber(o.merge_from_neuron)
             THEN ManageResult("panic", "Couldn't parse the neuron id", <<>>)
             ELSE IF op = "merge_maturity"
                     /\ (o.merge_maturity = 0 \/ o.merge_maturity > 100)
             THEN ManageResult("err", "Percentage to merge must be a number from 1 to 100", <<>>)
             ELSE IF enc_fail = k
             THEN ManageResult("err", "encode", <<>>)
             ELSE EncodeFrom(o, k + 1, enc_fail, overflow_checks, Append(msgs, op))

\* lines 201-209: sign every message, the first failure returned by `?`
RECURSIVE SignFrom(_, _, _, _)
SignFrom(msgs, k, sign_fail, signed) ==
    IF k > Len(msgs) THEN ManageResult("ok", "", signed)
    ELSE IF sign_fail = k THEN ManageResult("err", "sign", <<>>)
    ELSE SignFrom(msgs, k + 1, sign_fail,
                  Append(signed, [canister_id |-> governance_canister_id,
                                  method_name |-> "manage_neuron", args |-> msgs[k]]))

\* as exec, but an empty list of messages is signed and returned
NeuronManageAllowsEmpty(o, enc_fail, sign_fail, overflow_checks) ==
    IF ~ParsesAsNumber(o.neuron_id)
    THEN ManageResult("panic", "Couldn't parse the neuron id", <<>>)
    ELSE LET encoded == EncodeFrom(o, 1, enc_fail, overflow_checks, <<>>)
         IN  IF encoded.kind # "ok" THEN encoded
             ELSE SignFrom(encoded.msgs, 1, sign_fail, <<>>)

\* exec, lines 67-211
NeuronManage(o, enc_fail, sign_fail, overflow_checks) ==
    IF ~ParsesAsNumber(o.neuron_id)
    THEN ManageResult("panic", "Couldn't parse the neuron id", <<>>)
    ELSE LET encoded == EncodeFrom(o, 1, enc_fail, overflow_checks, <<>>)
         IN  IF encoded.kind # "ok" THEN encoded
             ELSE IF Len(encoded.msgs) = 0
             THEN ManageResult("err", "No instructions provided", <<>>)
             ELSE SignFrom(encoded.msgs, 1, sign_fail, <<>>)

\* Command::NeuronManage(opts) => neuron_manage::exec(agent, opts).and_then(print)
ExecNeuronManage ==
    /\ pc = "command" /\ cmd = "NeuronManage"
    /\ \E o \in ManageOpts :
       \E enc_fail \in 0..Cardinality(o.ops) :
       \E sign_fail \in (IF enc_fail = 0 THEN 0..Cardinality(o.ops) ELSE {0}) :
       \E overflow_checks \in (IF "split" \in o.ops /\ o.split = "overflowing"
                                THEN BOOLEAN ELSE {FALSE}) :
        LET r == NeuronManage(o, enc_fail, sign_fail, overflow_checks)
        IN  /\ opts' = o
            /\ generated' = r.msgs
            /\ stdout' = IF r.kind = "ok" THEN Append(stdout, <<"artifact", cmd>>) ELSE stdout
            /\ Finish(CASE r.kind = "ok" -> ReturnedOk
                        [] r.kind = "err" -> ReturnedErr(r.v)
                        [] r.kind = "panic" -> Panicked(r.v))
    /\ UNCHANGED <<pem, cmd, identity, net>>
    /\ UNCHANGED sendVars /\ UNCHANGED libVars

(***************************************************************************)
(* The specification of the program.                                       *)
(***************************************************************************)
Next ==
    \/ ExecSend
    \/ ExecGenerate
    \/ ExecNoPem
    \/ GetAgent
    \/ ExecSign
    \/ ExecNeuronManage
    \/ ExecWrong
    \/ SendExec
    \/ Send
    \/ Prompt
    \/ SendIngressStep
    \/ CheckStatus
    \/ PollStep

Spec == Init /\ [][Next]_vars

(***************************************************************************)
(* The functions of lib/mod.rs applied to bounded inputs.                  *)
(***************************************************************************)
LibCall(fn, response, blob, canister_id, method_name, part, p) ==
    [fn |-> fn, response |-> response, blob |-> blob, canister_id |-> canister_id,
     method_name |-> method_name, part |-> part, pem |-> p]
LibRet(kind, ok, v) == [kind |-> kind, ok |-> ok, v |-> v]
Parts == {"args", "rets"}

LibCalls ==
    {LibCall("parse_query_response", r, "", "", "", "", EmptyPem) : r \in RawResponses}
    \cup {LibCall("get_idl_string", NotCbor, b, c, m, part, EmptyPem) :
            b \in Blobs, c \in CanisterIds, m \in MethodNames, part \in Parts}
    \cup {LibCall("get_identity", NotCbor, "", "", "", "", p) : p \in PemSet}

InitLib ==
    /\ pem = NoneOf(EmptyPem)
    /\ cmd = "Generate"
    /\ opts = NoOpts
    /\ pc = "lib"
    /\ outcome = Running
    /\ identity = "none"
    /\ net = <<>>
    /\ shape = "none"
    /\ vals = <<>>
    /\ idx = 0
    /\ handled = <<>>
    /\ ingress_res = NoIngressResult
    /\ query_raw = NotCbor
    /\ stdout = <<>>
    /\ stdin = <<>>
    /\ pollMax = 0
    /\ pollSeq = <<>>
    /\ pollOut = NoPoll
    /\ generated = <<>>
    /\ lib_pc = "call"
    /\ lib_call \in LibCalls
    /\ lib_ret = LibRet("none", FALSE, "")
    /\ candid \in (IF lib_call.fn = "get_idl_string" THEN CandidSet ELSE {BundledCandid})

progVars == <<pem, cmd, opts, pc, outcome, identity, net, stdout, generated>>

ApplyParseQueryResponse ==
    /\ lib_pc = "call" /\ lib_call.fn = "parse_query_response"
    /\ LET r == ParseQueryResponse(lib_call.response)
       IN  lib_ret' = LibRet("result", r.ok, r.v)
    /\ lib_pc' = "returned"
    /\ UNCHANGED <<lib_call, candid>> /\ UNCHANGED progVars /\ UNCHANGED sendVars

ApplyGetIdlString ==
    /\ lib_pc = "call" /\ lib_call.fn = "get_idl_string"
    /\ LET r == GetIdlString(lib_call.blob, lib_call.canister_id,
                             lib_call.method_name, lib_call.part)
       IN  lib_ret' = LibRet("result", r.ok, r.v)
    /\ lib_pc' = "returned"
    /\ UNCHANGED <<lib_call, candid>> /\ UNCHANGED progVars /\ UNCHANGED sendVars

ApplyGetIdentity ==
    /\ lib_pc = "call" /\ lib_call.fn = "get_identity"
    /\ LET r == GetIdentity(lib_call.pem)
       IN  lib_ret' = LibRet(r.kind, r.kind = "returned", r.v)
    /\ lib_pc' = "returned"
    /\ UNCHANGED <<lib_call, candid>> /\ UNCHANGED progVars /\ UNCHANGED sendVars

NextLib ==
    \/ ApplyParseQueryResponse
    \/ ApplyGetIdlString
    \/ ApplyGetIdentity

SpecLib == InitLib /\ [][NextLib]_vars

(***************************************************************************)
(* send::exec on one artifact, run without and with --raw on the same      *)
(* answer from STDIN and the same transport reply for every message.       *)
(***************************************************************************)
SendResult(ops, ok) == [ops |-> ops, ok |-> ok]

\* send, lines 72-116: the transport operations send performs for a message
\* and whether it returns Ok(())
SendOne(message, o, input, reply) ==
    LET parsed == IngressParse(message)
    IN  IF ~parsed.ok THEN SendResult(<<>>, FALSE)
        ELSE IF ArgsFail(message, o) THEN SendResult(<<>>, FALSE)
        ELSE IF DryRun(o) THEN SendResult(<<>>, TRUE)
        ELSE IF NeedsPrompt(message, o) /\ ~(input.some /\ Confirmed(input.v))
        THEN SendResult(<<>>, FALSE)
        ELSE LET r == SendIngress(message, reply)
             IN  IF r.kind \in {"err", "panic"} THEN SendResult(r.ops, FALSE)
                 ELSE IF r.kind = "QueryResponse" /\ ~o.raw
                         /\ ~GetIdlString(r.v, parsed.v.canister_id,
                                          parsed.v.method_name, "rets").ok
                 THEN SendResult(r.ops, FALSE)
                 ELSE SendResult(r.ops, TRUE)

\* exec, lines 30-35: send(&msg, &opts).await? for each message in turn
RECURSIVE ExecOps(_, _, _, _)
ExecOps(msgs, o, input, reply) ==
    IF msgs = <<>> THEN <<>>
    ELSE LET r == SendOne(Head(msgs), o, input, reply)
         IN  IF r.ok THEN r.ops \o ExecOps(Tail(msgs), o, input, reply)
             ELSE r.ops

RawCall(msgs, o, input, reply) ==
    [fn |-> "send::exec", msgs |-> msgs, o |-> o, input |-> input, reply |-> reply]
RawMessages ==
    {Ingress("update", Some(Rid1), UpdateContent),
     Ingress("query", NoneOf(<<>>), QueryContent),
     Ingress("update", Some(Rid2), UnprintableContent)}
RawCalls ==
    {RawCall(msgs, [o EXCEPT !.raw = FALSE], input, reply) :
        msgs \in UNION {[1..n -> RawMessages] : n \in 1..MaxBatch},
        o \in {x \in SendOpts : x.file = NoneOf(Json("invalid", <<>>))},
        input \in {NoneOf(<<>>)} \cup {Some(l) : l \in StdinLines},
        reply \in TransportReplies}

InitRaw ==
    /\ pem = NoneOf(EmptyPem)
    /\ cmd = "Send"
    /\ opts = NoOpts
    /\ pc = "lib"
    /\ outcome = Running
    /\ identity = "none"
    /\ net = <<>>
    /\ shape = "none"
    /\ vals = <<>>
    /\ idx = 0
    /\ handled = <<>>
    /\ ingress_res = NoIngressResult
    /\ query_raw = NotCbor
    /\ stdout = <<>>
    /\ stdin = <<>>
    /\ pollMax = 0
    /\ pollSeq = <<>>
    /\ pollOut = NoPoll
    /\ generated = <<>>
    /\ lib_pc = "call"
    /\ lib_call \in RawCalls
    /\ lib_ret = [kind |-> "none", plain |-> <<>>, raw |-> <<>>]
    /\ candid = BundledCandid

ApplySendExec ==
    /\ lib_pc = "call" /\ lib_call.fn = "send::exec"
    /\ lib_ret' = [kind |-> "result",
                   plain |-> ExecOps(lib_call.msgs, [lib_call.o EXCEPT !.raw = FALSE],
                                     lib_call.input, lib_call.reply),
                   raw |-> ExecOps(lib_call.msgs, [lib_call.o EXCEPT !.raw = TRUE],
                                   lib_call.input, lib_call.reply)]
    /\ lib_pc' = "returned"
    /\ UNCHANGED <<lib_call, candid>> /\ UNCHANGED progVars /\ UNCHANGED sendVars

NextRaw == ApplySendExec

SpecRaw == InitRaw /\ [][NextRaw]_vars

(***************************************************************************)
(* Properties.                                                             *)
(***************************************************************************)
\* send::exec has read and decoded the file
Decoded == cmd = "Send" /\ pc \notin {"start", "send_exec", "lib"} /\ opts.file.some
InvalidArtifact == ReturnedErr("Invalid JSON content")
IsStatusOp(op) == op.op = "query_for_status"
IsSubmitOp(op) == op.op \in {"call", "query"}
\* the message at position i of the artifact
MessageAt(i) == IF shape = "bundles" THEN vals[i].ingress ELSE vals[i]
SubmitOps(i) == SelectSeq(net, LAMBDA op : IsSubmitOp(op) /\ op.msg = i)
StatusOps(i) == SelectSeq(net, LAMBDA op : IsStatusOp(op) /\ op.msg = i)

\* C1: send::exec handles the artifact with the first of the shapes single
\* envelope, list of envelopes, list of bundles that decodes it (only bundles
\* are polled), and returns "Invalid JSON content" exactly when none of the
\* three decodes it, and then no transport operation has been performed.
C1_DecodeOrder ==
    Decoded =>
        LET json == opts.file.v
            single == FromStrIngress(json).ok
            list == ~single /\ FromStrVecIngress(json).ok
            bundles == ~single /\ ~list /\ FromStrVecIngressWithRequestId(json).ok
        IN  /\ (shape = "single") <=> single
            /\ (shape = "list") <=> list
            /\ (shape = "bundles") <=> bundles
            /\ single => vals = <<FromStrIngress(json).v>>
            /\ list => vals = FromStrVecIngress(json).v
            /\ bundles => vals = FromStrVecIngressWithRequestId(json).v
            /\ (outcome = InvalidArtifact) <=> (~single /\ ~list /\ ~bundles)
            /\ outcome = InvalidArtifact => net = <<>>
            /\ \A j \in 1..Len(net) : IsStatusOp(net[j]) => bundles

\* an array that decodes both as a list of envelopes and as a list of bundles
\* has been sent as a list of envelopes
C1_Witness ==
    /\ Decoded /\ pc = "done" /\ outcome = ReturnedOk
    /\ shape = "list" /\ Len(vals) = 2 /\ Len(net) = 2
    /\ FromStrVecIngressWithRequestId(opts.file.v).ok

\* the errors of decoding an envelope, a request id or a response
EncodingErrors ==
    {"Invalid cbor data in the content of the message.", "Invalid cbor content",
     "Invalid hex", "Invalid request id", "Cannot parse header"}

\* C2: when send::exec has returned an encoding error of one call of a batch
\* (a list of envelopes or of bundles), every call of the batch has been
\* processed.
C2_SiblingsStillProcessed ==
    (Decoded /\ pc = "done" /\ shape \in {"list", "bundles"}
     /\ outcome.kind = "err" /\ outcome.v \in EncodingErrors)
        => Len(handled) = Len(vals)

\* C3: a signing command performs no transport operation.
C3_SigningOffline == cmd \in SigningCommands => net = <<>>

\* send_ingress was called for the message ingress_res.msg and the transport
\* was created
SendIngressCalled ==
    /\ Decoded /\ ingress_res.kind # "none"
    /\ ~(ingress_res.kind = "err" /\ ingress_res.v = "transport" /\ SubmitOps(ingress_res.msg) = <<>>)

\* C4 as stated: send_ingress performs exactly one transport operation for
\* every envelope it is given, a query for call kind query and a call
\* otherwise.
C4_ExactlyOneTransportOp ==
    SendIngressCalled =>
        /\ Len(SubmitOps(ingress_res.msg)) = 1
        /\ SubmitOps(ingress_res.msg)[1].op =
              IF MessageAt(ingress_res.msg).call_type = "query" THEN "query" ELSE "call"

\* C4 amended: send_ingress performs at most one transport operation per
\* envelope, a query for call kind query and a call with the stored request
\* id otherwise; when it returns Ok it performed exactly one, which succeeded,
\* and it returns the decoded query response or the stored request id.  An
\* envelope of another kind than query whose request id is missing makes it
\* panic, and one whose request id is not a request id makes it return an
\* error, both before any transport operation.
C4_OneTransportOp ==
    (Decoded /\ idx >= 1) =>
        /\ \A j \in 1..Len(net) : IsSubmitOp(net[j]) =>
            /\ \A k \in 1..(j - 1) : ~(IsSubmitOp(net[k]) /\ net[k].msg = net[j].msg)
            /\ net[j].msg \in 1..idx
            /\ IF MessageAt(net[j].msg).call_type = "query"
               THEN net[j].op = "query"
               ELSE /\ net[j].op = "call"
                    /\ MessageAt(net[j].msg).request_id.some
                    /\ HexEncode(net[j].request_id) = MessageAt(net[j].msg).request_id.v
        /\ ingress_res.ok =>
            LET m == MessageAt(ingress_res.msg)
                ops == SubmitOps(ingress_res.msg)
            IN  /\ Len(ops) = 1 /\ ops[1].ok
                /\ ingress_res.kind = "QueryResponse" =>
                    /\ m.call_type = "query"
                    /\ Ok(ingress_res.v) = ParseQueryResponse(query_raw)
                /\ ingress_res.kind = "RequestId" =>
                    /\ m.call_type # "query"
                    /\ ops[1].request_id = ingress_res.v
                    /\ HexEncode(ingress_res.v) = m.request_id.v
        /\ ingress_res.kind = "panic" =>
            /\ MessageAt(ingress_res.msg).call_type # "query"
            /\ ~MessageAt(ingress_res.msg).request_id.some
            /\ SubmitOps(ingress_res.msg) = <<>>
            /\ outcome = Panicked("Cannot get request_id from the update message")
        /\ (SendIngressCalled /\ MessageAt(ingress_res.msg).call_type # "query"
            /\ MessageAt(ingress_res.msg).request_id.some
            /\ ~RequestIdFromStr(MessageAt(ingress_res.msg).request_id.v).ok) =>
                ingress_res.kind = "err" /\ SubmitOps(ingress_res.msg) = <<>>
        /\ (SendIngressCalled /\ SubmitOps(ingress_res.msg) = <<>>) =>
            /\ MessageAt(ingress_res.msg).call_type # "query"
            /\ \/ ~MessageAt(ingress_res.msg).request_id.some
               \/ ~RequestIdFromStr(MessageAt(ingress_res.msg).request_id.v).ok

\* an envelope that is neither a query nor an update went through call
C4_Witness ==
    /\ Decoded /\ ingress_res.kind = "RequestId"
    /\ MessageAt(ingress_res.msg).call_type = "call"
    /\ ingress_res.v = <<171>>

\* the poll of the bundle ingress_res.msg has been started
Polling == Decoded /\ shape = "bundles" /\ (pc = "poll" \/ pollOut # NoPoll)
OnlyNonTerminal(seq) == \A i \in 1..Len(seq) : seq[i] \in NonTerminalStatuses
Front(seq) == SubSeq(seq, 1, Len(seq) - 1)

\* C6: the poll returns a terminal status only when it is the answer to its
\* last status query and no earlier answer was terminal, it sends one status
\* query per iteration, and after k non-terminal statuses followed by a
\* terminal status T it has returned T after exactly k+1 iterations.
C6_PollMonotonicity ==
    Polling =>
        /\ Len(StatusOps(ingress_res.msg)) = Len(pollSeq)
        /\ \A i \in 1..Len(pollSeq) - 1 : pollSeq[i] \notin TerminalStatuses
        /\ pollOut \in TerminalStatuses =>
            /\ pollSeq # <<>>
            /\ pollSeq[Len(pollSeq)] = pollOut
        /\ pollOut = NoPoll =>
            /\ pc = "poll"
            /\ \A i \in 1..Len(pollSeq) : pollSeq[i] \notin TerminalStatuses
        /\ (pollSeq # <<>> /\ OnlyNonTerminal(Front(pollSeq))
            /\ pollSeq[Len(pollSeq)] \in TerminalStatuses) =>
                /\ pollOut = pollSeq[Len(pollSeq)]
                /\ pc # "poll"

\* the answers Unknown, Unknown, Replied: Replied after three status queries
C6_Witness ==
    /\ Polling
    /\ pollSeq = <<"Unknown", "Unknown", "Replied">>
    /\ pollOut = "Replied"
    /\ Len(StatusOps(ingress_res.msg)) = 3

\* C7: the poll makes at most pollMax iterations, it returns TimedOut only
\* when pollMax iterations have been made and none gave a terminal status,
\* and when every answer is Unknown it goes on below pollMax iterations and
\* returns TimedOut at exactly pollMax.
C7_PollTimeout ==
    Polling =>
        /\ Len(pollSeq) <= pollMax
        /\ pc = "poll" => Len(pollSeq) < pollMax
        /\ pollOut = "TimedOut" =>
            /\ Len(pollSeq) = pollMax
            /\ Len(StatusOps(ingress_res.msg)) = pollMax
            /\ \A i \in 1..Len(pollSeq) : pollSeq[i] \notin TerminalStatuses
        /\ (\A i \in 1..Len(pollSeq) : pollSeq[i] = "Unknown") =>
            IF Len(pollSeq) = pollMax
            THEN pollOut = "TimedOut" /\ pc # "poll"
            ELSE pollOut = NoPoll /\ pc = "poll"

\* a budget of two iterations and the answers Unknown, Unknown
C7_Witness ==
    /\ Polling /\ pollMax = 2
    /\ pollSeq = <<"Unknown", "Unknown">>
    /\ pollOut = "TimedOut"

\* C8: a status query is sent only for a bundle, outside dry-run, with the
\* bundle's status-query envelope, and it follows either the successful
\* submission of that bundle's call envelope or an earlier status query of
\* the same bundle; a bundle whose submission failed gets no status query.
C8_SubmitBeforePoll ==
    Decoded =>
        /\ \A j \in 1..Len(net) : IsStatusOp(net[j]) =>
            /\ shape = "bundles"
            /\ ~opts.dry_run
            /\ j > 1
            /\ net[j - 1].msg = net[j].msg
            /\ IsStatusOp(net[j - 1]) \/ (IsSubmitOp(net[j - 1]) /\ net[j - 1].ok)
            /\ net[j].canister_id = vals[net[j].msg].request_status.canister_id
            /\ net[j].request_id = vals[net[j].msg].request_status.request_id
        /\ \A k \in 1..Len(net) : (IsSubmitOp(net[k]) /\ ~net[k].ok) =>
            \A j \in 1..Len(net) : ~(IsStatusOp(net[j]) /\ net[j].msg = net[k].msg)
        /\ (ingress_res.kind \in {"err", "panic"}) =>
            \A j \in 1..Len(net) : ~(IsStatusOp(net[j]) /\ net[j].msg = ingress_res.msg)
        /\ opts.dry_run => net = <<>>

\* the second bundle of a list is polled after its call was submitted
C8_Witness ==
    /\ Decoded /\ shape = "bundles" /\ Len(vals) = 2
    /\ Len(SubmitOps(2)) = 1 /\ SubmitOps(2)[1].ok
    /\ Len(StatusOps(2)) >= 1

LibReturned(fn) == pc = "lib" /\ lib_pc = "returned" /\ lib_call.fn = fn

\* C5: parse_query_response returns, for a map with an integer reject_code
\* and a text reject_message, Ok of "Rejected (code <code>): <message>";
\* otherwise, for a map whose reply is a map with a byte string arg, Ok of
\* those bytes; for every other input an error; it never panics.
C5_ParseQueryResponse ==
    LibReturned("parse_query_response") =>
        LET r == lib_call.response
            keys == IF r.t = "map" THEN DOMAIN r.m ELSE {}
            rejected == /\ {"reject_code", "reject_message"} \subseteq keys
                        /\ r.m["reject_code"].t = "int"
                        /\ r.m["reject_message"].t = "text"
            replied == /\ ~rejected
                       /\ "reply" \in keys
                       /\ r.m["reply"].t = "map"
                       /\ "arg" \in DOMAIN r.m["reply"].m
                       /\ r.m["reply"].m["arg"].t = "bytes"
        IN  /\ lib_ret.kind = "result"
            /\ rejected =>
                /\ lib_ret.ok
                /\ lib_ret.v = "Rejected (code " \o ToString(r.m["reject_code"].i)
                                  \o "): " \o r.m["reject_message"].s
            /\ replied => lib_ret.ok /\ lib_ret.v = r.m["reply"].m["arg"].s
            /\ (~rejected /\ ~replied) =>
                /\ ~lib_ret.ok
                /\ lib_ret.v \in {"Invalid cbor data in the content of the message.",
                                  "Invalid cbor content"}

\* a response with the reject fields and a well-formed reply is a rejection
C5_Witness ==
    /\ LibReturned("parse_query_response")
    /\ lib_call.response.t = "map"
    /\ {"reject_code", "reject_message", "reply"} \subseteq DOMAIN lib_call.response.m
    /\ lib_call.response.m["reply"] =
          CborMap([k \in {"arg"} |-> CborBytes("DIDL:ListNeuronsResponse:42")])
    /\ lib_ret.ok /\ lib_ret.v = "Rejected (code 3): bad"

\* C9: get_idl_string decodes against the method's type only when the
\* canister is the governance or the ledger canister and its description
\* parses, type checks, declares an actor and has the method; in every other
\* case it decodes without types and returns the generic rendering of any
\* decodable bytes; bytes that do not decode give an error text; it never
\* panics.
C9_DecoderFallback ==
    LibReturned("get_idl_string") =>
        LET c == lib_call
            known == c.canister_id \in {GOVERNANCE_CANISTER_ID, LEDGER_CANISTER_ID}
            did == IF c.canister_id = GOVERNANCE_CANISTER_ID
                   THEN candid.governance ELSE candid.ledger
            matching == /\ known
                        /\ did.parses /\ did.checks /\ did.actor
                        /\ c.method_name \in DOMAIN did.methods
            w == WireOf(c.blob)
        IN  /\ lib_ret.kind = "result"
            /\ lib_ret.v # ""
            /\ ~matching =>
                IF w.wf THEN lib_ret.ok /\ lib_ret.v = "(" \o w.v \o ")"
                ELSE ~lib_ret.ok
            /\ matching =>
                LET ty == IF c.part = "args" THEN did.methods[c.method_name].args
                          ELSE did.methods[c.method_name].rets
                IN  IF w.wf /\ w.ty = ty
                    THEN lib_ret.ok /\ lib_ret.v = "(" \o w.v \o " : " \o ty \o ")"
                    ELSE ~lib_ret.ok

\* a governance response for a canister with no bundled description
C9_Witness ==
    /\ LibReturned("get_idl_string")
    /\ lib_call.canister_id = OtherCanisterId
    /\ lib_call.method_name = "list_neurons"
    /\ lib_call.blob = "DIDL:ListNeuronsResponse:42"
    /\ lib_ret.ok /\ lib_ret.v = "(42)"

\* C10: get_identity returns the anonymous identity exactly for the empty
\* PEM; for another PEM it returns the secp256k1 identity when that loader
\* accepts it, otherwise the basic identity when that loader accepts it, and
\* otherwise it exits with code 1 and returns no identity.
C10_IdentitySelection ==
    LibReturned("get_identity") =>
        LET p == lib_call.pem
        IN  /\ (lib_ret.kind = "returned" /\ lib_ret.v = "anonymous") <=> p.len = 0
            /\ (p.len > 0 /\ p.secp256k1) =>
                lib_ret.kind = "returned" /\ lib_ret.v = "secp256k1"
            /\ (p.len > 0 /\ ~p.secp256k1 /\ p.basic) =>
                lib_ret.kind = "returned" /\ lib_ret.v = "basic"
            /\ (p.len > 0 /\ ~p.secp256k1 /\ ~p.basic) =>
                lib_ret.kind = "exit" /\ lib_ret.v = "1"

\* a PEM text that neither loader accepts
C10_Witness ==
    /\ LibReturned("get_identity")
    /\ lib_call.pem = Pem(1, FALSE, FALSE)
    /\ lib_ret.kind = "exit"

Answered(i) ==
    \E k \in 1..Len(stdin) :
        stdin[k].msg = i /\ stdin[k].line.some /\ Confirmed(stdin[k].line.v)
\* the user declined at the prompt for message i
Declined(i) ==
    \E k \in 1..Len(stdin) :
        stdin[k].msg = i /\ stdin[k].line.some /\ ~Confirmed(stdin[k].line.v)

\* C12: when send_ingress has submitted a message through transport.call,
\* --yes was given or the user answered the prompt for that message with y
\* or yes, whatever the call_type of the envelope; and once the user has
\* declined for a message, the process has ended and no transport operation
\* was performed for that message or a later one.
C12_ConfirmedBeforeCall ==
    Decoded =>
        /\ ingress_res.kind = "RequestId" =>
            opts.yes \/ Answered(ingress_res.msg)
        /\ \A i \in 1..Len(vals) : Declined(i) =>
            /\ pc = "done"
            /\ \A j \in 1..Len(net) : net[j].msg < i

\* C13: for the same artifact, the same transport replies and the same other
\* options, send::exec performs the same sequence of transport operations
\* with --raw as without it.
C13_RawOnlyChangesPrinting ==
    LibReturned("send::exec") => lib_ret.plain = lib_ret.raw

ManageRan == cmd = "NeuronManage" /\ pc = "done" /\ "neuron_id" \in DOMAIN opts
FixedOrder ==
    <<"add_hot_key", "remove_hot_key", "stop_dissolving", "start_dissolving",
      "additional_dissolve_delay_seconds", "disburse", "spawn", "split",
      "merge_from_neuron", "merge_maturity">>
BadPercentage ==
    /\ "merge_maturity" \in opts.ops
    /\ opts.merge_maturity = 0 \/ opts.merge_maturity > 100
\* the operations requested besides merge_maturity have values that parse
\* and a split amount that fits
OthersValid ==
    /\ ParsesAsNumber(opts.additional_dissolve_delay_seconds)
    /\ ParsesAsNumber(opts.merge_from_neuron)
    /\ opts.split # "overflowing"

\* C14: neuron_manage::exec either fails and returns no message, or returns
\* a non-empty list with exactly one signed bundle per requested operation
\* in the fixed order; given a neuron id that parses, it fails with "No
\* instructions provided" when no operation is requested, and with the
\* percentage error when merge_maturity is 0 or above 100 and the other
\* requested operations are valid and encode.
C14_ManageResult ==
    ManageRan =>
        /\ outcome.kind # "ok" => generated = <<>>
        /\ outcome.kind = "ok" =>
            /\ generated # <<>>
            /\ Len(generated) = Cardinality(opts.ops)
            /\ [k \in 1..Len(generated) |-> generated[k].args]
                   = SelectSeq(FixedOrder, LAMBDA op : op \in opts.ops)
            /\ \A k \in 1..Len(generated) :
                   /\ generated[k].canister_id = GOVERNANCE_CANISTER_ID
                   /\ generated[k].method_name = "manage_neuron"
        /\ ParsesAsNumber(opts.neuron_id) =>
            /\ opts.ops = {} => outcome = ReturnedErr("No instructions provided")
            /\ BadPercentage /\ OthersValid =>
                   /\ outcome.kind = "err"
                   /\ outcome.v \in {"Percentage to merge must be a number from 1 to 100",
                                     "encode"}
C14_Witness ==
    /\ ManageRan
    /\ outcome.kind = "ok"
    /\ Len(generated) = 2
    /\ generated[1].args = "stop_dissolving"
    /\ generated[2].args = "merge_maturity"

\* C14 as stated: "No instructions provided" whenever no operation is
\* requested, and the percentage error whenever merge_maturity is 0 or above
\* 100 and the other requested operations are valid.
C14_ErrorsAsStated ==
    ManageRan =>
        /\ opts.ops = {} => outcome = ReturnedErr("No instructions provided")
        /\ BadPercentage /\ OthersValid =>
               outcome = ReturnedErr("Percentage to merge must be a number from 1 to 100")

====
